---------------------------- MODULE Spec2Model ----------------------------
(***************************************************************************)
(* A model of active_subspaces/domains.py: the bounded active-variable     *)
(* domain (interval_endpoints, zonotope_vertices, nzv, the hull            *)
(* constraints) and the inverse map (sample_z, regularize_z, rotate_x).    *)
(*                                                                         *)
(* Arithmetic is exact fixed point.  An orthogonal matrix W is a record    *)
(* [den, mat] standing for mat / den (mat integer, mat^T mat = den^2 I).   *)
(* Active and inactive coordinates y, z are integers counting 1/Den.       *)
(* A full-space coordinate W1*y + W2*z is then an integer counting         *)
(* 1/(den*Den), and the hypercube bound 1 is the integer den*Den.          *)
(***************************************************************************)
EXTENDS Integers, Sequences, FiniteSets, TLC

VARIABLES
    pc,       \* position of the running call
    W,        \* subspaces.eigenvectors = [W1 | W2], as [den, mat]
    n,        \* number of active columns (W1 = first n columns of W)
    Y,        \* inverse / rotate_x: the rows of active points
    N,        \* inverse: the N argument, [ty, val]
    r,        \* regularize_z: index of the row being sampled (1-based)
    z0,       \* sample_z: chain state
    zc,       \* sample_z: last candidate
    sigSq,    \* sample_z: (10*sig*den*Den)^2, zero exactly when sig is zero
    i,        \* sample_z: loop counter of the running loop
    Z,        \* sample_z: the (m-n) x N output array
    Zlist,    \* regularize_z: per-row outputs; rotate_x: its Z argument
    out,      \* result of rotate_x: [X, ind]
    fwd,      \* result of forward: [Y, Z]
    err,      \* the exception that left the call, or "none"
    calls,    \* history: rows for which sample_z was entered, in order
    lpCalls,  \* history: per sample_z invocation, calls of the LP oracle
    steps,    \* history: proposals drawn by the last sample_z, per loop
    nzvArgs,  \* nzv: the arguments of the top-level call
    nzvRet,   \* nzv: the k of the call that returned last
    stack,    \* nzv: the frames of the running calls, innermost last
    tab,      \* nzv: the table M shared by the calls
    dW1,      \* BoundedActiveVariableDomain: subspaces.W1 (integer m x n)
    Xlist,    \* zonotope_vertices: distinct sign vectors found so far
    trial,    \* zonotope_vertices: loop counter
    dom       \* the constructed domain [vertY, vertX, convhull, constraints]

vars == <<pc, W, n, Y, N, r, z0, zc, sigSq, i, Z, Zlist, out, fwd, err,
          calls, lpCalls, steps, nzvArgs, nzvRet, stack, tab,
          dW1, Xlist, trial, dom>>

invVars == <<W, n, Y, N, r, z0, zc, sigSq, i, Z, Zlist, out, fwd,
             calls, lpCalls, steps>>
nzvVars == <<nzvArgs, nzvRet, stack, tab>>
domVars == <<dW1, Xlist, trial, dom>>

None == "None"

(***************************************************************************)
(* Bounds of the model.                                                    *)
(***************************************************************************)
MaxRows == 2      \* rows of Y
MaxN == 2         \* largest N
MaxStep == 1      \* proposal displacements per coordinate: -MaxStep..MaxStep
StepUnit == 2     \* ... counted in multiples of StepUnit/Den
MaxDim == 8       \* nzv: largest m and n
MaxTrials == 4    \* zonotope_vertices: trial budget NY of the modelled calls
MaxEntry == 2     \* interval_endpoints: largest |entry| of W1
MaxInputs == 3    \* interval_endpoints: largest number m of rows of W1

\* Resolution of the coordinate grid: y and z count tenths.
Den == 2 * 5

(***************************************************************************)
(* Dense arrays.  A vector is a sequence, a matrix a sequence of rows, a   *)
(* 3-D array a sequence of matrices.  Shapes are passed where an axis may  *)
(* be empty.                                                               *)
(***************************************************************************)
RECURSIVE SumSeq(_)
SumSeq(s) == IF s = <<>> THEN 0 ELSE Head(s) + SumSeq(Tail(s))

Dot(u, v) == SumSeq([j \in 1..Len(u) |-> u[j] * v[j]])

Zeros(k) == [j \in 1..k |-> 0]

Zeros2(p, q) == [a \in 1..p |-> Zeros(q)]

Column(M, k) == [a \in 1..Len(M) |-> M[a][k]]

\* np.dot(M, v) for a matrix M with p rows
MatVec(M, v) == [a \in 1..Len(M) |-> Dot(M[a], v)]

\* M.T for a p x q matrix
Transpose2(M, p, q) == [b \in 1..q |-> [a \in 1..p |-> M[a][b]]]

\* A.transpose((1, 0, 2)) for a d1 x d2 x d3 array
Transpose102(A, d1, d2, d3) ==
    [b \in 1..d2 |-> [a \in 1..d1 |-> [c \in 1..d3 |-> A[a][b][c]]]]

\* the elements of a d1 x d2 x d3 array in C (row-major) order
Flat3(A, d1, d2, d3) ==
    [p \in 1..(d1 * d2 * d3) |->
        A[((p - 1) \div (d2 * d3)) + 1]
         [(((p - 1) \div d3) % d2) + 1]
         [((p - 1) % d3) + 1]]

\* flat.reshape((p, q)) and flat.reshape((d1, d2, d3))
Reshape2(flat, p, q) == [a \in 1..p |-> [b \in 1..q |-> flat[(a - 1) * q + b]]]

Reshape3(flat, d1, d2, d3) ==
    [a \in 1..d1 |-> [b \in 1..d2 |-> [c \in 1..d3 |->
        flat[((a - 1) * d2 + (b - 1)) * d3 + c]]]]

\* np.kron(a, b) of two vectors
KronSwapped(a, b) ==
    [p \in 1..(Len(a) * Len(b)) |->
        b[((p - 1) \div Len(a)) + 1] * a[((p - 1) % Len(a)) + 1]]
Kron(a, b) ==
    [p \in 1..(Len(a) * Len(b)) |->
        a[((p - 1) \div Len(b)) + 1] * b[((p - 1) % Len(b)) + 1]]

\* np.arange(k) and np.ones(k)
Arange(k) == [j \in 1..k |-> j - 1]

Ones(k) == [j \in 1..k |-> 1]

\* np.sign
Sign(v) == IF v > 0 THEN 1 ELSE IF v < 0 THEN -1 ELSE 0

(***************************************************************************)
(* The projection: subspaces.W1, subspaces.W2, subspaces.eigenvectors.     *)
(***************************************************************************)
Dim(w) == Len(w.mat)

\* W1: the first k columns; W2: the remaining ones (integer numerators)
W1of(w, k) == [a \in 1..Dim(w) |-> [b \in 1..k |-> w.mat[a][b]]]

W2of(w, k) == [a \in 1..Dim(w) |-> [b \in 1..(Dim(w) - k) |-> w.mat[a][k + b]]]

\* the integer that stands for the hypercube bound 1 in full-space units
One(w) == w.den * Den

Rot345 == [den |-> 5, mat |-> << <<3, -4>>, <<4, 3>> >>]

Rot435 == [den |-> 5, mat |-> << <<4, -3>>, <<3, 4>> >>]

Perm2 == [den |-> 1, mat |-> << <<0, 1>>, <<1, 0>> >>]

Orth3 == [den |-> 3, mat |-> << <<1, 2, 2>>, <<2, 1, -2>>, <<2, -2, 1>> >>]


(***************************************************************************)
(* sample_z: the pieces of one invocation for active point y.              *)
(***************************************************************************)
\* s = np.dot(W1, y)
SVec(w, k, y) == MatVec(W1of(w, k), y)

\* np.all(0 <= 1-s) and np.all(0 >= -1-s)
OriginFeasible(w, k, y) ==
    \A a \in 1..Dim(w) :
        /\ 0 <= One(w) - SVec(w, k, y)[a]
        /\ 0 >= -One(w) - SVec(w, k, y)[a]

\* np.all(np.dot(W2, zc) <= 1-s) and np.all(np.dot(W2, zc) >= -1-s)
AcceptsLowerOnly(w, k, y, z) ==
    \A a \in 1..Dim(w) :
        MatVec(W2of(w, k), z)[a] >= -One(w) - SVec(w, k, y)[a]
Accepts(w, k, y, z) ==
    \A a \in 1..Dim(w) :
        /\ MatVec(W2of(w, k), z)[a] <= One(w) - SVec(w, k, y)[a]
        /\ MatVec(W2of(w, k), z)[a] >= -One(w) - SVec(w, k, y)[a]

\* z0 = np.dot(W2.T, x0), x0 in full-space units
SeedOf(w, k, x0) ==
    [b \in 1..(Dim(w) - k) |-> Dot(Column(W2of(w, k), b), x0) \div (w.den * w.den)]

\* qps.linear_program_eq(c, W1.T, y, lb, ub): the points the oracle may
\* return, W1^T x0 = y and -1 <= x0 <= 1; the oracle fails when there is
\* none.  The candidates are the points W1*y + W2*z with z on the coordinate
\* grid (|z| <= sqrt(m) holds for every point of the hypercube).
LPSolutions(w, k, y) ==
    { x0 \in { [a \in 1..Dim(w) |-> SVec(w, k, y)[a] + MatVec(W2of(w, k), z)[a]] :
                 z \in [1..(Dim(w) - k) -> (-(Dim(w) * Den))..(Dim(w) * Den)] } :
        /\ \A b \in 1..k : Dot(Column(W1of(w, k), b), x0) = w.den * w.den * y[b]
        /\ \A a \in 1..Dim(w) : -One(w) <= x0[a] /\ x0[a] <= One(w) }

SumSq(v) == Dot(v, v)

Min(a, b) == IF a <= b THEN a ELSE b

\* sig = 0.1*min(norm(W2 z0 + s - 1), norm(W2 z0 + s + 1)), kept as the
\* square of 10*sig in full-space units
SigSqOf(w, k, y, z) ==
    LET x == [a \in 1..Dim(w) |-> MatVec(W2of(w, k), z)[a] + SVec(w, k, y)[a]]
    IN  Min(SumSq([a \in 1..Dim(w) |-> x[a] - One(w)]),
            SumSq([a \in 1..Dim(w) |-> x[a] + One(w)]))

\* zc = z0 + sig*np.random.normal(size=z0.shape): with sig = 0 the candidate
\* is z0; otherwise z0 plus any displacement of the proposal grid
Candidates(z, sq) ==
    IF sq = 0 THEN {z}
    ELSE { [b \in 1..Len(z) |-> z[b] + StepUnit * d[b]] :
              d \in [1..Len(z) -> (-MaxStep)..MaxStep] }

\* the number of burn-in proposals of sample_z(N, ...)
BurnInShort(k) == k
BurnIn(k) == 10 * k

\* Z[:,i] = z0 (i counted from 1)
SetColumn(M, k, v) == [a \in 1..Len(M) |-> [M[a] EXCEPT ![k] = v[a]]]

(***************************************************************************)
(* rotate_x and forward.                                                   *)
(***************************************************************************)
\* np.tile(Y.reshape((NY, n, 1)), (1, 1, N))
Tile(Yy, NY, k, NN) == [a \in 1..NY |-> [b \in 1..k |-> [c \in 1..NN |-> Yy[a][b]]]]

\* np.concatenate((YY, Z), axis=1)
Concat1(A, B, NY) == [a \in 1..NY |-> A[a] \o B[a]]

\* np.dot(YZ, W.T): row p of the result is W * YZ[p]
DotWNoTranspose(YZ, w) ==
    [p \in 1..Len(YZ) |-> [a \in 1..Dim(w) |-> Dot(Column(w.mat, a), YZ[p])]]
DotWT(YZ, w) ==
    [p \in 1..Len(YZ) |-> [a \in 1..Dim(w) |-> Dot(w.mat[a], YZ[p])]]

\* rotate_x(Y, Z, W); X is in full-space units
rotate_x(Yy, Zz, w, k, NY, NN) ==
    LET m  == Dim(w)
        YY == Tile(Yy, NY, k, NN)
        C  == Concat1(YY, Zz, NY)
        T  == Transpose102(C, NY, m, NN)
        YZ == Transpose2(Reshape2(Flat3(T, m, NY, NN), m, NN * NY), m, NN * NY)
        X  == DotWT(YZ, w)
        ind == [p \in 1..(NN * NY) |-> <<Kron(Arange(NY), Ones(NN))[p]>>]
    IN  [X |-> X, ind |-> ind]

\* forward(X) = (np.dot(X, W1), np.dot(X, W2))
forward(X, w, k) ==
    [Y |-> [p \in 1..Len(X) |-> [b \in 1..k |-> Dot(X[p], Column(W1of(w, k), b))]],
     Z |-> [p \in 1..Len(X) |->
              [b \in 1..(Dim(w) - k) |-> Dot(X[p], Column(W2of(w, k), b))]]]

(***************************************************************************)
(* BoundedActiveVariableMap.inverse(Y, N), step by step.                   *)
(***************************************************************************)
\* type(N) is not int
RejectsOnlyStr(v) == v.ty = "str"
NotInt(v) == v.ty # "int"

NoSteps == [burn |-> 0, sample |-> 0]

IdleNzv == nzvArgs = None /\ nzvRet = 0 /\ stack = <<>> /\ tab = None

IdleDom == dW1 = None /\ Xlist = <<>> /\ trial = 0 /\ dom = None

IdleInv ==
    /\ W = None /\ n = 0 /\ Y = <<>> /\ N = None /\ r = 0 /\ z0 = <<>>
    /\ zc = <<>> /\ sigSq = 0 /\ i = 0 /\ Z = <<>> /\ Zlist = <<>>
    /\ out = None /\ fwd = None /\ calls = <<>> /\ lpCalls = <<>>
    /\ steps = NoSteps

\* the projections, active points and N arguments the calls are made with
SampledW == {Rot345, Rot435}

YVals == {12, 13, 14, 15}

NArgs == [ty : {"int"}, val : (-1)..MaxN]
            \cup {[ty |-> "float", val |-> 2], [ty |-> "bool", val |-> 1],
                  [ty |-> "str", val |-> 1]}

RowsOf(S, k) == UNION { [1..R -> [1..k -> S]] : R \in 1..MaxRows }

Init ==
    /\ pc = "inverse"
    /\ W \in SampledW
    /\ n = 1
    /\ Y \in RowsOf(YVals, 1)
    /\ N \in NArgs
    /\ r = 0 /\ z0 = <<>> /\ zc = <<>> /\ sigSq = 0 /\ i = 0
    /\ Z = <<>> /\ Zlist = <<>> /\ out = None /\ fwd = None /\ err = "none"
    /\ calls = <<>> /\ lpCalls = <<>> /\ steps = NoSteps
    /\ IdleNzv /\ IdleDom

\* inverse, lines 57-59: the check of N
CheckInputs ==
    /\ pc = "inverse"
    /\ IF NotInt(N)
       THEN pc' = "raised" /\ err' = "TypeError" /\ r' = r
       ELSE pc' = "regularize" /\ err' = err /\ r' = 1
    /\ UNCHANGED <<W, n, Y, N, z0, zc, sigSq, i, Z, Zlist, out, fwd,
                   calls, lpCalls, steps>>
    /\ UNCHANGED <<nzvVars, domVars>>

\* regularize_z, lines 78-79: enter sample_z for the next row
EnterSampleZ ==
    /\ pc = "regularize"
    /\ r <= Len(Y)
    /\ pc' = "seed"
    /\ calls' = Append(calls, r)
    /\ lpCalls' = Append(lpCalls, 0)
    /\ steps' = NoSteps
    /\ UNCHANGED <<W, n, Y, N, r, z0, zc, sigSq, i, Z, Zlist, out, fwd, err>>
    /\ UNCHANGED <<nzvVars, domVars>>

\* sample_z, lines 143-156 with a feasible origin: z0 = 0, then sig
SeedOrigin ==
    /\ pc = "seed"
    /\ OriginFeasible(W, n, Y[r])
    /\ z0' = Zeros(Dim(W) - n)
    /\ sigSq' = SigSqOf(W, n, Y[r], z0')
    /\ pc' = "burn"
    /\ i' = 0
    /\ UNCHANGED <<W, n, Y, N, r, zc, Z, Zlist, out, fwd, err,
                   calls, lpCalls, steps>>
    /\ UNCHANGED <<nzvVars, domVars>>

\* sample_z, lines 146-156: the oracle returns x0, z0 = W2^T x0, then sig
SeedLPRetried ==
    /\ pc = "seed"
    /\ ~OriginFeasible(W, n, Y[r])
    /\ \E x0 \in LPSolutions(W, n, Y[r]) :
          /\ z0' = SeedOf(W, n, x0)
          /\ sigSq' = SigSqOf(W, n, Y[r], z0')
    /\ lpCalls' = [lpCalls EXCEPT ![Len(lpCalls)] = @ + 2]
    /\ pc' = "burn"
    /\ i' = 0
    /\ UNCHANGED <<W, n, Y, N, r, zc, Z, Zlist, out, fwd, err, calls, steps>>
    /\ UNCHANGED <<nzvVars, domVars>>
SeedLP ==
    /\ pc = "seed"
    /\ ~OriginFeasible(W, n, Y[r])
    /\ \E x0 \in LPSolutions(W, n, Y[r]) :
          /\ z0' = SeedOf(W, n, x0)
          /\ sigSq' = SigSqOf(W, n, Y[r], z0')
    /\ lpCalls' = [lpCalls EXCEPT ![Len(lpCalls)] = @ + 1]
    /\ pc' = "burn"
    /\ i' = 0
    /\ UNCHANGED <<W, n, Y, N, r, zc, Z, Zlist, out, fwd, err, calls, steps>>
    /\ UNCHANGED <<nzvVars, domVars>>

\* sample_z, line 150: the oracle fails and its exception leaves inverse
SeedLPFails ==
    /\ pc = "seed"
    /\ ~OriginFeasible(W, n, Y[r])
    /\ LPSolutions(W, n, Y[r]) = {}
    /\ lpCalls' = [lpCalls EXCEPT ![Len(lpCalls)] = @ + 1]
    /\ pc' = "raised"
    /\ err' = "LPError"
    /\ UNCHANGED <<W, n, Y, N, r, z0, zc, sigSq, i, Z, Zlist, out, fwd,
                   calls, steps>>
    /\ UNCHANGED <<nzvVars, domVars>>

\* sample_z, lines 159-162: one burn-in step
BurnStep ==
    /\ pc = "burn"
    /\ i < BurnIn(N.val)
    /\ \E c \in Candidates(z0, sigSq) :
          /\ zc' = c
          /\ z0' = IF Accepts(W, n, Y[r], c) THEN c ELSE z0
    /\ i' = i + 1
    /\ steps' = [steps EXCEPT !.burn = @ + 1]
    /\ UNCHANGED <<pc, W, n, Y, N, r, sigSq, Z, Zlist, out, fwd, err,
                   calls, lpCalls>>
    /\ UNCHANGED <<nzvVars, domVars>>

\* sample_z, line 165: Z = np.zeros((m-n, N)), which raises for N < 0
AllocZ ==
    /\ pc = "burn"
    /\ i >= BurnIn(N.val)
    /\ IF N.val < 0
       THEN pc' = "raised" /\ err' = "ValueError" /\ Z' = Z
       ELSE pc' = "sample" /\ err' = err /\ Z' = Zeros2(Dim(W) - n, N.val)
    /\ i' = 0
    /\ UNCHANGED <<W, n, Y, N, r, z0, zc, sigSq, Zlist, out, fwd,
                   calls, lpCalls, steps>>
    /\ UNCHANGED <<nzvVars, domVars>>

\* sample_z, lines 166-170: one sampling step
SampleStep ==
    /\ pc = "sample"
    /\ i < N.val
    /\ \E c \in Candidates(z0, sigSq) :
          /\ zc' = c
          /\ z0' = IF Accepts(W, n, Y[r], c) THEN c ELSE z0
    /\ Z' = SetColumn(Z, i + 1, z0')
    /\ i' = i + 1
    /\ steps' = [steps EXCEPT !.sample = @ + 1]
    /\ UNCHANGED <<pc, W, n, Y, N, r, sigSq, Zlist, out, fwd, err,
                   calls, lpCalls>>
    /\ UNCHANGED <<nzvVars, domVars>>

\* sample_z, line 172, and regularize_z, line 79: return Z, append it
ReturnZ ==
    /\ pc = "sample"
    /\ i >= N.val
    /\ Zlist' = Append(Zlist, Z)
    /\ r' = r + 1
    /\ pc' = "regularize"
    /\ UNCHANGED <<W, n, Y, N, z0, zc, sigSq, i, Z, out, fwd, err,
                   calls, lpCalls, steps>>
    /\ UNCHANGED <<nzvVars, domVars>>

\* regularize_z, line 80, and inverse, lines 62-63: reshape, then rotate_x
RotateX ==
    /\ pc = "regularize"
    /\ r > Len(Y)
    /\ LET NY == Len(Y)
           mz == Dim(W) - n
           Z3 == Reshape3(Flat3(Zlist, NY, mz, N.val), NY, mz, N.val)
       IN  out' = rotate_x(Y, Z3, W, n, NY, N.val)
    /\ pc' = "done"
    /\ UNCHANGED <<W, n, Y, N, r, z0, zc, sigSq, i, Z, Zlist, fwd, err,
                   calls, lpCalls, steps>>
    /\ UNCHANGED <<nzvVars, domVars>>

Next ==
    \/ CheckInputs
    \/ EnterSampleZ
    \/ SeedOrigin
    \/ SeedLP
    \/ SeedLPFails
    \/ BurnStep
    \/ AllocZ
    \/ SampleStep
    \/ ReturnZ
    \/ RotateX

Spec == Init /\ [][Next]_vars

(***************************************************************************)
(* Properties of inverse, checked under Spec.                              *)
(***************************************************************************)
\* -1 <= W1*y + W2*z <= 1 componentwise
InBox(w, k, y, z) ==
    \A a \in 1..Dim(w) :
        /\ -One(w) <= SVec(w, k, y)[a] + MatVec(W2of(w, k), z)[a]
        /\ SVec(w, k, y)[a] + MatVec(W2of(w, k), z)[a] <= One(w)

\* C1: once sample_z has a seed, the chain state and every column it has
\* written or returned satisfy -1 <= W1*y + W2*z <= 1 componentwise, after
\* seeding and after every burn-in and sampling step.
C1_SamplesStayInBox ==
    /\ pc \in {"burn", "sample"} => InBox(W, n, Y[r], z0)
    /\ pc = "sample" => \A k \in 1..i : InBox(W, n, Y[r], Column(Z, k))
    /\ \A q \in 1..Len(Zlist) :
          \A k \in 1..N.val : InBox(W, n, Y[q], Column(Zlist[q], k))

C1_Witness ==
    /\ pc = "done"
    /\ N.val = 2
    /\ \E q \in 1..Len(Zlist) : lpCalls[q] = 1
    /\ \E q \in 1..Len(Zlist) : Column(Zlist[q], 1) # Column(Zlist[q], 2)

\* C2 as stated: every N that is not a positive integer is rejected at the
\* map boundary, before sample_z or the LP oracle runs for any row, and no
\* output is returned.
C2_RejectsNonPositive ==
    (N.ty # "int" \/ N.val <= 0) =>
        /\ pc \in {"inverse", "raised"}
        /\ calls = <<>>
        /\ lpCalls = <<>>
        /\ out = None

\* C2 amended: every N whose type is not int is rejected with a TypeError at
\* the map boundary, before sample_z or the LP oracle runs for any row, and
\* no output is returned.
C2_RejectsNonInt ==
    N.ty # "int" =>
        /\ pc \in {"inverse", "raised"}
        /\ pc = "raised" => err = "TypeError"
        /\ calls = <<>>
        /\ lpCalls = <<>>
        /\ out = None

C2_Witness == pc = "raised" /\ err = "TypeError" /\ N.ty = "float"

\* C3: inverse returns R*N points of m coordinates and a row index of
\* length R*N with row_index[p] = floor(p / N), each row 0..R-1 occurring
\* exactly N times.
C3_CountAndRowIndex ==
    pc = "done" =>
        LET R == Len(Y)
        IN  /\ Len(out.X) = R * N.val
            /\ \A p \in 1..Len(out.X) : Len(out.X[p]) = Dim(W)
            /\ Len(out.ind) = R * N.val
            /\ \A p \in 1..Len(out.ind) : out.ind[p] = <<(p - 1) \div N.val>>
            /\ \A q \in 0..(R - 1) :
                  Cardinality({p \in 1..Len(out.ind) : out.ind[p][1] = q}) = N.val

C3_Witness == pc = "done" /\ Len(Y) = 2 /\ N.val = 2 /\ Len(out.X) = 4

\* the seed sample_z starts from when the step scale is zero
SeedsOf(w, k, y) ==
    IF OriginFeasible(w, k, y) THEN {Zeros(Dim(w) - k)}
    ELSE {SeedOf(w, k, x0) : x0 \in LPSolutions(w, k, y)}

C9_Counts ==
    /\ pc = "sample" => steps.burn = 10 * N.val /\ steps.sample = i
    /\ (pc \in {"regularize", "done"} /\ Len(Zlist) >= 1) =>
          steps = [burn |-> 10 * N.val, sample |-> N.val]
    /\ (pc \in {"burn", "sample"} /\ sigSq = 0) =>
          /\ z0 \in SeedsOf(W, n, Y[r])
          /\ pc = "sample" => \A k \in 1..i : Column(Z, k) = z0

C9_StepRule ==
    (pc \in {"burn", "sample"} /\ steps' # steps) =>
        /\ z0' = IF InBox(W, n, Y[r], zc') THEN zc' ELSE z0
        /\ pc = "sample" =>
              /\ i' = i + 1
              /\ Column(Z', i') = z0'
              /\ \A k \in 1..i : Column(Z', k) = Column(Z, k)
              /\ (~InBox(W, n, Y[r], zc') /\ i >= 1) =>
                    Column(Z', i') = Column(Z', i)
        /\ sigSq = 0 => z0' = z0

\* C9: sample_z draws 10*N burn-in proposals, then N sampling proposals; a
\* step replaces the chain state by the candidate exactly when the candidate
\* is in the box; each sampling step writes the state it ends in to its
\* column, so a rejecting step repeats the previous column, and with step
\* scale zero every column is the seed.
C9_ChainSteps == [][C9_StepRule]_vars /\ []C9_Counts

C9_Witness ==
    /\ pc = "sample" /\ i = 2
    /\ ~InBox(W, n, Y[r], zc)
    /\ Column(Z, 1) = Column(Z, 2)
    /\ sigSq > 0
    /\ z0 # Zeros(Dim(W) - n)

\* C10: regularize_z enters sample_z once per row, in row order; an
\* invocation calls the LP oracle not at all when the origin is feasible and
\* exactly once otherwise, before any proposal; a failing oracle ends
\* inverse with no output.
C10_OneOracleCallPerRow ==
    /\ calls = [q \in 1..Len(calls) |-> q]
    /\ Len(lpCalls) = Len(calls)
    /\ pc \in {"seed", "burn", "sample"} => Len(calls) = r
    /\ pc = "regularize" => Len(calls) = r - 1
    /\ pc = "done" => Len(calls) = Len(Y)
    /\ pc = "seed" => steps = NoSteps /\ lpCalls[r] = 0
    /\ \A q \in 1..Len(lpCalls) :
          (q < Len(lpCalls) \/ pc # "seed") =>
              lpCalls[q] = IF OriginFeasible(W, n, Y[q]) THEN 0 ELSE 1
    /\ pc = "raised" => out = None
    /\ err = "LPError" => pc = "raised" /\ steps = NoSteps

C10_Witness ==
    /\ pc = "done"
    /\ N.val = 2
    /\ Len(Y) = 2
    /\ lpCalls = <<0, 1>>

C10_WitnessFailure == pc = "raised" /\ err = "LPError" /\ calls = <<1, 2>>

(***************************************************************************)
(* rotate_x followed by forward, on arbitrary Y and Z.                     *)
(***************************************************************************)
RotatedW == {Rot345, Perm2, Orth3}

SpikeVals == {-1, 1, 2}

\* vectors of length L with at most two nonzero entries
Spiked(L) ==
    { [p \in 1..L |-> (IF p = p1 THEN v1 ELSE 0) + (IF p = p2 THEN v2 ELSE 0)] :
        <<p1, p2, v1, v2>> \in (1..L) \X (1..L) \X SpikeVals \X SpikeVals }

InitRotate ==
    /\ pc = "rotate_x"
    /\ W \in RotatedW
    /\ n \in 1..(Dim(W) - 1)
    /\ N \in [ty : {"int"}, val : 1..MaxN]
    /\ \E R \in 1..MaxRows :
          \E flat \in Spiked(R * n + R * (Dim(W) - n) * N.val) :
              /\ Y = Reshape2(flat, R, n)
              /\ Zlist = Reshape3([p \in 1..(R * (Dim(W) - n) * N.val) |-> flat[R * n + p]],
                                  R, Dim(W) - n, N.val)
    /\ r = 0 /\ z0 = <<>> /\ zc = <<>> /\ sigSq = 0 /\ i = 0 /\ Z = <<>>
    /\ out = None /\ fwd = None /\ err = "none"
    /\ calls = <<>> /\ lpCalls = <<>> /\ steps = NoSteps
    /\ IdleNzv /\ IdleDom

\* rotate_x(Y, Z, W), lines 174-183
RotateCall ==
    /\ pc = "rotate_x"
    /\ out' = rotate_x(Y, Zlist, W, n, Len(Y), N.val)
    /\ pc' = "rotated"
    /\ UNCHANGED <<W, n, Y, N, r, z0, zc, sigSq, i, Z, Zlist, fwd, err,
                   calls, lpCalls, steps>>
    /\ UNCHANGED <<nzvVars, domVars>>

\* forward(X), lines 50-53, applied to the points rotate_x returned
ForwardCall ==
    /\ pc = "rotated"
    /\ fwd' = forward(out.X, W, n)
    /\ pc' = "forwarded"
    /\ UNCHANGED <<W, n, Y, N, r, z0, zc, sigSq, i, Z, Zlist, out, err,
                   calls, lpCalls, steps>>
    /\ UNCHANGED <<nzvVars, domVars>>

NextRotate ==
    \/ RotateCall
    \/ ForwardCall

SpecRotate == InitRotate /\ [][NextRotate]_vars

\* C4: the point of rotate_x at position r*N + k is W * [Y[r] ; Z[r,:,k]],
\* its row index is r, and forward returns (Y[r], Z[r,:,k]) there (times
\* den^2 in the fixed-point units, since mat^T mat = den^2 I).
C4_RotateForwardRoundTrip ==
    pc \in {"rotated", "forwarded"} =>
        \A q \in 1..Len(Y) : \A k \in 1..N.val :
            LET p == (q - 1) * N.val + k
                v == Y[q] \o Column(Zlist[q], k)
            IN  /\ out.X[p] = [a \in 1..Dim(W) |-> Dot(W.mat[a], v)]
                /\ out.ind[p] = <<q - 1>>
                /\ pc = "forwarded" =>
                      /\ fwd.Y[p] = [b \in 1..n |-> W.den * W.den * Y[q][b]]
                      /\ fwd.Z[p] = [b \in 1..(Dim(W) - n) |->
                                        W.den * W.den * Zlist[q][b][k]]

C4_Witness ==
    /\ pc = "forwarded"
    /\ W = Orth3 /\ n = 1 /\ Len(Y) = 2 /\ N.val = 2
    /\ Y[2][1] = 2
    /\ Zlist[1][2][2] = -1
    /\ fwd.Y[3] = <<18>>
    /\ fwd.Z[2] = <<0, -9>>

(***************************************************************************)
(* nzv(m, n, M=None): the number of zonotope vertices, lines 91-104.       *)
(* The recursion runs on an explicit stack of frames [m, n, at, k1, j];    *)
(* the table is the one array every call of a top-level call shares.       *)
(* tab is [M, oob]: M the table (<<>> for None), oob whether an index      *)
(* outside the table has been used.                                        *)
(***************************************************************************)
NoTable == [M |-> <<>>, oob |-> FALSE]

\* whether the 0-based index (a, b) lies in the table
InTable(st, a, b) ==
    /\ 0 <= a /\ a < Len(st.M)
    /\ 0 <= b /\ b < Len(st.M[1])

\* M[a, b]
Get(st, a, b) == IF InTable(st, a, b) THEN st.M[a + 1][b + 1] ELSE 0

\* the table state after reading index (a, b)
Touch(st, a, b) == IF InTable(st, a, b) THEN st ELSE [st EXCEPT !.oob = TRUE]

\* M[a, b] = v
Put(st, a, b, v) ==
    IF InTable(st, a, b) THEN [st EXCEPT !.M[a + 1][b + 1] = v]
    ELSE [st EXCEPT !.oob = TRUE]

\* k1 + k2, line 100
CombineFirstTwice(k1, k2) == k1 + k1
Combine(k1, k2) == k1 + k2

Frame(m, k) == [m |-> m, n |-> k, at |-> "enter", k1 |-> 0, j |-> 0]

Top == stack[Len(stack)]

\* the stack with its top frame replaced by f
SetTop(f) == [stack EXCEPT ![Len(stack)] = f]

InitNzv ==
    /\ pc = "nzv"
    /\ nzvArgs \in [m : 1..MaxDim, n : 1..MaxDim]
    /\ stack = <<Frame(nzvArgs.m, nzvArgs.n)>>
    /\ tab = NoTable
    /\ nzvRet = 0
    /\ err = "none"
    /\ IdleInv /\ IdleDom

\* lines 93-98: create the table, then the base case, the first recursive
\* call, or the memoized entry
NzvEnter ==
    /\ pc = "nzv"
    /\ Top.at = "enter"
    /\ LET m  == Top.m
           k  == Top.n
           t0 == IF tab.M = <<>> THEN [M |-> Zeros2(m, k), oob |-> FALSE] ELSE tab
       IN  IF m = 1 \/ k = 1
           THEN /\ tab' = Put(t0, m - 1, k - 1, 2)
                /\ stack' = SetTop([Top EXCEPT !.at = "exit"])
           ELSE IF Get(t0, m - 1, k - 1) = 0
                THEN /\ tab' = Touch(t0, m - 1, k - 1)
                     /\ stack' = Append(SetTop([Top EXCEPT !.at = "ret1"]),
                                        Frame(m - 1, k - 1))
                ELSE /\ tab' = Touch(t0, m - 1, k - 1)
                     /\ stack' = SetTop([Top EXCEPT !.at = "exit"])
    /\ UNCHANGED <<pc, nzvArgs, nzvRet, err, invVars, domVars>>

\* lines 98-99: k1 is back, call nzv(m-1, n, M)
NzvAfterK1 ==
    /\ pc = "nzv"
    /\ Top.at = "ret1"
    /\ stack' = Append(SetTop([Top EXCEPT !.at = "ret2", !.k1 = nzvRet]),
                       Frame(Top.m - 1, Top.n))
    /\ UNCHANGED <<pc, nzvArgs, nzvRet, tab, err, invVars, domVars>>

\* lines 99-100: k2 is back, M[m-1, n-1] = k1 + k2
NzvAfterK2 ==
    /\ pc = "nzv"
    /\ Top.at = "ret2"
    /\ tab' = Put(tab, Top.m - 1, Top.n - 1, Combine(Top.k1, nzvRet))
    /\ stack' = SetTop([Top EXCEPT !.at = "loop", !.j = 0])
    /\ UNCHANGED <<pc, nzvArgs, nzvRet, err, invVars, domVars>>

\* lines 101-102: for i in range(n-1): M = nzv(m, i+1, M)[1]
NzvLoop ==
    /\ pc = "nzv"
    /\ Top.at = "loop"
    /\ IF Top.j < Top.n - 1
       THEN stack' = Append(SetTop([Top EXCEPT !.j = @ + 1]),
                            Frame(Top.m, Top.j + 1))
       ELSE stack' = SetTop([Top EXCEPT !.at = "exit"])
    /\ UNCHANGED <<pc, nzvArgs, nzvRet, tab, err, invVars, domVars>>

\* lines 103-104: k = M[m-1, n-1]; return k, M
NzvReturn ==
    /\ pc = "nzv"
    /\ Top.at = "exit"
    /\ nzvRet' = Get(tab, Top.m - 1, Top.n - 1)
    /\ tab' = Touch(tab, Top.m - 1, Top.n - 1)
    /\ stack' = SubSeq(stack, 1, Len(stack) - 1)
    /\ pc' = IF Len(stack) = 1 THEN "nzv_done" ELSE pc
    /\ UNCHANGED <<nzvArgs, err, invVars, domVars>>

NextNzv ==
    \/ NzvEnter
    \/ NzvAfterK1
    \/ NzvAfterK2
    \/ NzvLoop
    \/ NzvReturn

\* the call runs to completion: nothing else is scheduled
SpecNzv == InitNzv /\ [][NextNzv]_vars /\ WF_vars(NextNzv)

\* the recurrence: 2 if m = 1 or n = 1, else count(m-1, n-1) + count(m-1, n)
RECURSIVE Count(_, _)
Count(m, k) ==
    IF m = 1 \/ k = 1 THEN 2 ELSE Count(m - 1, k - 1) + Count(m - 1, k)

C5_Result ==
    /\ ~tab.oob
    /\ pc = "nzv_done" =>
        /\ nzvRet = Count(nzvArgs.m, nzvArgs.n)
        /\ Len(tab.M) = nzvArgs.m
        /\ \A a \in 1..nzvArgs.m :
              /\ Len(tab.M[a]) = nzvArgs.n
              /\ \A b \in 1..nzvArgs.n : tab.M[a][b] \in {0, Count(a, b)}
        /\ (nzvArgs.m > 1 /\ nzvArgs.n > 1) =>
              \A b \in 1..nzvArgs.n : tab.M[nzvArgs.m][b] = Count(nzvArgs.m, b)

\* C5: a top-level nzv(m, n) terminates and returns count(m, n); every entry
\* that the memoization and the eager fill of row m leave in the m x n table
\* is the count of its own index, and no index outside the table is used.
C5_NzvIsCount == []C5_Result /\ <>(pc = "nzv_done")

C5_Witness ==
    /\ pc = "nzv_done"
    /\ nzvArgs = [m |-> 4, n |-> 3]
    /\ nzvRet = 14
    /\ tab.M[4] = <<2, 8, 14>>
    /\ tab.M[3][2] = 6

(***************************************************************************)
(* BoundedActiveVariableDomain.__init__, lines 19-44, with                 *)
(* interval_endpoints, zonotope_vertices and the hull constraints.  W1 is  *)
(* an integer m x n matrix here (nothing in the construction needs its     *)
(* columns to be orthonormal).                                             *)
(***************************************************************************)
ActiveDim(w1) == Len(w1[1])

SignVec(v) == [a \in 1..Len(v) |-> Sign(v[a])]

Neg(v) == [a \in 1..Len(v) |-> -v[a]]

\* interval_endpoints(W1), lines 106-117
interval_endpoints_swapped(w1) ==
    LET sg == SignVec(Column(w1, 1))
        y0 == Dot(Column(w1, 1), sg)
    IN  IF y0 < -y0
        THEN [Y |-> << <<y0>>, <<-y0>> >>, X |-> <<sg, Neg(sg)>>]
        ELSE [Y |-> << <<-y0>>, <<y0>> >>, X |-> <<sg, Neg(sg)>>]
interval_endpoints(w1) ==
    LET sg == SignVec(Column(w1, 1))
        y0 == Dot(Column(w1, 1), sg)
    IN  IF y0 < -y0
        THEN [Y |-> << <<y0>>, <<-y0>> >>, X |-> <<sg, Neg(sg)>>]
        ELSE [Y |-> << <<-y0>>, <<y0>> >>, X |-> <<Neg(sg), sg>>]

\* x = np.sign(np.dot(y, W1.transpose())), line 126
SignPattern(w1, y) == SignVec(MatVec(w1, y))

\* Y = np.dot(X, W1), line 136
VertexImages(X, w1) ==
    [p \in 1..Len(X) |-> [b \in 1..ActiveDim(w1) |-> Dot(X[p], Column(w1, b))]]

\* the directions np.random.normal(size=(n)) is drawn from, n = 2
Directions ==
    { <<1, 1>>, <<1, -1>>, <<2, -1>>, <<1, -2>>,
      <<-1, -1>>, <<-1, 1>>, <<-2, 1>>, <<-1, 2>> }

Cross(p, q, u) == (q[1] - p[1]) * (u[2] - p[2]) - (q[2] - p[2]) * (u[1] - p[1])

Range(f) == {f[a] : a \in DOMAIN f}

\* ConvexHull(Y) fails when the points span no area
HullFails(pts) == \A p \in pts : \A q \in pts : \A u \in pts : Cross(p, q, u) = 0

\* ConvexHull(Y).equations for points of the plane: one row [a1, a2, c] per
\* facet, a the outward normal (not normalised), a.y + c <= 0 on the hull
HullEquations(pts) ==
    { <<q[2] - p[2], -(q[1] - p[1]),
        -((q[2] - p[2]) * p[1] - (q[1] - p[1]) * p[2])>> :
        <<p, q>> \in { e \in pts \X pts :
              /\ e[1] # e[2]
              /\ \A u \in pts : Cross(e[1], e[2], u) >= 0
              /\ \A u \in pts :
                    Cross(e[1], e[2], u) = 0 =>
                        /\ Dot(<<u[1] - e[1][1], u[2] - e[1][2]>>,
                               <<e[2][1] - e[1][1], e[2][2] - e[1][2]>>) >= 0
                        /\ Dot(<<u[1] - e[2][1], u[2] - e[2][2]>>,
                               <<e[1][1] - e[2][1], e[1][2] - e[2][2]>>) >= 0 } }

\* the constraint of lines 35-39: fun(x) = np.dot(A, x) - b with
\* A = equations[:, :n] and b = equations[:, n], one value per facet
ConstraintFun(eqs, x) == [e \in eqs |-> Dot(<<e[1], e[2]>>, x) - e[3]]

Eye2 == << <<1, 0>>, <<0, 1>> >>

Hex == << <<1, 0>>, <<0, 1>>, <<1, 1>> >>

IntervalW1s ==
    UNION { [1..m -> [1..1 -> (-MaxEntry)..MaxEntry]] : m \in 1..MaxInputs }

InitDomain ==
    /\ pc = "init"
    /\ dW1 \in IntervalW1s \cup {Eye2, Hex}
    /\ Xlist = <<>> /\ trial = 0 /\ dom = None
    /\ err = "none"
    /\ IdleInv /\ IdleNzv

\* lines 24-27 and 42-44: n = 1
BuildInterval ==
    /\ pc = "init"
    /\ ActiveDim(dW1) = 1
    /\ dom' = [vertY |-> interval_endpoints(dW1).Y,
               vertX |-> interval_endpoints(dW1).X,
               convhull |-> None, constraints |-> None, warned |-> FALSE]
    /\ pc' = "constructed"
    /\ UNCHANGED <<dW1, Xlist, trial, err, invVars, nzvVars>>

\* line 29: enter zonotope_vertices, lines 120-123
EnterVertices ==
    /\ pc = "init"
    /\ ActiveDim(dW1) # 1
    /\ Xlist' = <<>>
    /\ trial' = 0
    /\ pc' = "vertices"
    /\ UNCHANGED <<dW1, dom, err, invVars, nzvVars>>

\* lines 124-134: one trial
VertexTrial ==
    /\ pc = "vertices"
    /\ trial < MaxTrials
    /\ \E y \in Directions :
          Xlist' = IF \E p \in 1..Len(Xlist) : Xlist[p] = SignPattern(dW1, y)
                   THEN Xlist
                   ELSE Append(Xlist, SignPattern(dW1, y))
    /\ trial' = trial + 1
    /\ UNCHANGED <<pc, dW1, dom, err, invVars, nzvVars>>

\* lines 135-137, then line 30: call nzv(m, n)
ReturnVertices ==
    /\ pc = "vertices"
    /\ trial >= MaxTrials
    /\ dom' = [vertY |-> VertexImages(Xlist, dW1), vertX |-> Xlist,
               convhull |-> None, constraints |-> None, warned |-> FALSE]
    /\ nzvArgs' = [m |-> Len(dW1), n |-> ActiveDim(dW1)]
    /\ stack' = <<Frame(Len(dW1), ActiveDim(dW1))>>
    /\ tab' = NoTable
    /\ pc' = "nzv"
    /\ UNCHANGED <<dW1, Xlist, trial, nzvRet, err, invVars>>

\* lines 31-34: the warning, then ConvexHull(Y) raises
HullRaises ==
    /\ pc = "nzv_done"
    /\ HullFails(Range(dom.vertY))
    /\ dom' = [dom EXCEPT !.warned = (Len(dom.vertY) # nzvRet)]
    /\ pc' = "raised"
    /\ err' = "QhullError"
    /\ UNCHANGED <<dW1, Xlist, trial, invVars, nzvVars>>

\* lines 31-44: the warning, the hull and the constraints
BuildZonotope ==
    /\ pc = "nzv_done"
    /\ ~HullFails(Range(dom.vertY))
    /\ dom' = [dom EXCEPT !.warned = (Len(dom.vertY) # nzvRet),
                          !.convhull = HullEquations(Range(dom.vertY)),
                          !.constraints = [type |-> "ineq",
                                           eqs |-> HullEquations(Range(dom.vertY))]]
    /\ pc' = "constructed"
    /\ UNCHANGED <<dW1, Xlist, trial, err, invVars, nzvVars>>

NextDomain ==
    \/ BuildInterval
    \/ EnterVertices
    \/ VertexTrial
    \/ ReturnVertices
    \/ NzvEnter
    \/ NzvAfterK1
    \/ NzvAfterK2
    \/ NzvLoop
    \/ NzvReturn
    \/ HullRaises
    \/ BuildZonotope

SpecDomain == InitDomain /\ [][NextDomain]_vars

\* C6 as stated: every component of every sign vector in vertX is -1 or +1.
C6_SignsNeverZero ==
    pc = "constructed" =>
        \A p \in 1..Len(dom.vertX) :
            \A a \in 1..Len(dom.vertX[p]) : dom.vertX[p][a] \in {-1, 1}

\* C7: for W1 of shape (m, 1) the domain holds Y = [yl, yu] (2 x 1) and
\* X = [xl; xu] (2 x m) with yl <= yu, W1^T xl = yl and W1^T xu = yu.
C7_IntervalEndpoints ==
    (pc = "constructed" /\ ActiveDim(dW1) = 1) =>
        /\ Len(dom.vertY) = 2 /\ Len(dom.vertX) = 2
        /\ Len(dom.vertY[1]) = 1 /\ Len(dom.vertY[2]) = 1
        /\ Len(dom.vertX[1]) = Len(dW1) /\ Len(dom.vertX[2]) = Len(dW1)
        /\ dom.vertY[1][1] <= dom.vertY[2][1]
        /\ Dot(Column(dW1, 1), dom.vertX[1]) = dom.vertY[1][1]
        /\ Dot(Column(dW1, 1), dom.vertX[2]) = dom.vertY[2][1]

C7_Witness ==
    /\ pc = "constructed"
    /\ dW1 = << <<1>>, <<-2>> >>
    /\ dom.vertY = << <<-3>>, <<3>> >>
    /\ dom.vertX = << <<-1, 1>>, <<1, -1>> >>

\* C8 as stated: for n > 1 the stored 'ineq' constraint function is
\* non-negative in every component at every vertex of vertY.
C8_VerticesFeasible ==
    (pc = "constructed" /\ ActiveDim(dW1) > 1) =>
        \A p \in 1..Len(dom.vertY) :
            \A e \in dom.constraints.eqs :
                ConstraintFun(dom.constraints.eqs, dom.vertY[p])[e] >= 0

=============================================================================
